---- MODULE Spec2Model ----
(***************************************************************************)
(* Model of bioblend.galaxy.invocations.InvocationClient:                  *)
(*   - wait_for_invocation  (bounded polling of an invocation's state)     *)
(*   - get_invocations      (assembly of the request parameters)           *)
(*   - get_invocation_report_pdf (streamed download to a file)             *)
(* maxwait, interval and time_left are Python floats (IEEE 754 doubles);   *)
(* whole numbers of seconds are the doubles that are whole.                *)
(***************************************************************************)
EXTENDS Integers, Sequences, FiniteSets, TLC

VARIABLES
    inv_state,    \* server side: invocation id -> current state
    pc,           \* waiter -> position in wait_for_invocation
    wargs,        \* waiter -> arguments of its wait_for_invocation call
    time_left,    \* waiter -> local variable time_left
    obs,          \* waiter -> states its show_invocation calls returned, in order
    polls,        \* waiter -> number of show_invocation requests issued
    outstanding,  \* waiter -> show_invocation requests issued and not yet answered
    sleeps,       \* waiter -> durations passed to time.sleep, in order
    budget,       \* waiter -> values taken by time_left, in order
    outcome,      \* waiter -> how its call ended
    list_pc,      \* position in get_invocations
    list_args,    \* arguments of the get_invocations call
    params,       \* the params dict handed to self._get
    pdf_pc,       \* position in get_invocation_report_pdf
    pdf_args,     \* chunk_size of the call
    response,     \* the streamed response r: status_code and body
    file_before,  \* the file at file_path as it was before the call
    file,         \* the file at file_path: exists, content, times opened
    pending,      \* chunks of r.iter_content not yet written
    pdf_outcome   \* how the call ended

wait_vars == <<inv_state, pc, wargs, time_left, obs, polls, outstanding, sleeps,
               budget, outcome>>
list_vars == <<list_pc, list_args, params>>
pdf_vars  == <<pdf_pc, pdf_args, response, file_before, file, pending, pdf_outcome>>
vars == <<inv_state, pc, wargs, time_left, obs, polls, outstanding, sleeps,
          budget, outcome, list_pc, list_args, params, pdf_pc, pdf_args,
          response, file_before, file, pending, pdf_outcome>>

----------------------------------------------------------------------------
(* Bounds of the model *)

MaxWait == 5
MaxInterval == 3
MaxTenths == 4
MaxTicks == 5
ConcMaxWait == 2
ConcMaxInterval == 1
MaxLimit == 2
MaxBody == 3
MaxChunkSize == 2

----------------------------------------------------------------------------
(* Python floats.  A double x with |x| < 16 that is a multiple of 2^-56 is  *)
(* [neg, hi, lo] with |x| = (hi * 2^30 + lo) * 2^-56; zero has neg = FALSE. *)
(* Every double in 1/16 <= |x| < 16 is such a multiple, and so is every     *)
(* difference of two of them.                                               *)

LimbBase == 2^30

Whole(n) == [neg |-> n < 0, hi |-> (IF n < 0 THEN -n ELSE n) * 2^26, lo |-> 0]

\* float(k / 10) for k = 1 .. 13: the doubles nearest to 0.1, 0.2, ..., 1.3
TenthsTable ==
    << <<6710886, 429496730>>, <<13421772, 858993460>>, <<20132659, 214748364>>,
       <<26843545, 644245096>>, <<33554432, 0>>,        <<40265318, 429496728>>,
       <<46976204, 858993456>>, <<53687091, 214748368>>, <<60397977, 644245096>>,
       <<67108864, 0>>,         <<73819750, 429496736>>, <<80530636, 858993456>>,
       <<87241523, 214748368>> >>

Tenths(k) == [neg |-> FALSE, hi |-> TenthsTable[k][1], lo |-> TenthsTable[k][2]]

Zero == Whole(0)

IsZero(a) == a.hi = 0 /\ a.lo = 0

MagLt(a, b) == a.hi < b.hi \/ (a.hi = b.hi /\ a.lo < b.lo)

MagAdd(a, b) ==
    LET l == a.lo + b.lo
    IN [hi |-> a.hi + b.hi + (l \div LimbBase), lo |-> l % LimbBase]

\* |a| - |b| for |a| >= |b|
MagSub(a, b) ==
    IF a.lo >= b.lo
    THEN [hi |-> a.hi - b.hi, lo |-> a.lo - b.lo]
    ELSE [hi |-> a.hi - b.hi - 1, lo |-> a.lo + LimbBase - b.lo]

Signed(neg, m) == [neg |-> neg /\ ~IsZero(m), hi |-> m.hi, lo |-> m.lo]

Negate(a) == Signed(~a.neg, a)

\* a < b
FLt(a, b) ==
    IF a.neg # b.neg THEN a.neg
    ELSE IF a.neg THEN MagLt(b, a) ELSE MagLt(a, b)

\* a <= b
FLe(a, b) == ~FLt(b, a)

\* a + b in exact arithmetic
ExactAdd(a, b) ==
    IF a.neg = b.neg THEN Signed(a.neg, MagAdd(a, b))
    ELSE IF MagLt(a, b) THEN Signed(b.neg, MagSub(b, a))
    ELSE Signed(a.neg, MagSub(a, b))

\* The number of low bits a value of high limb hi has beyond 53 significant bits.
RECURSIVE ExcessBits(_)
ExcessBits(hi) == IF hi < 2^23 THEN 0 ELSE 1 + ExcessBits(hi \div 2)

\* Rounding to 53 significant bits, to nearest, ties to even.
Round53(x) ==
    LET s == ExcessBits(x.hi)
        p == 2^s
        rem == x.lo % p
        odd == (x.lo \div p) % 2 = 1
        up == 2 * rem > p \/ (2 * rem = p /\ odd)
        lo1 == x.lo - rem + (IF up THEN p ELSE 0)
    IN IF s = 0 THEN x
       ELSE IF lo1 = LimbBase THEN [neg |-> x.neg, hi |-> x.hi + 1, lo |-> 0]
       ELSE [neg |-> x.neg, hi |-> x.hi, lo |-> lo1]

\* The float a - b
FSub(a, b) == Round53(ExactAdd(a, Negate(b)))

\* min(a, b): b if b < a, else a
FMin(a, b) == IF FLt(b, a) THEN b ELSE a

\* ceil(a / b) in exact arithmetic, for a >= 0, b > 0: the least n with n * b >= a
RECURSIVE CeilFrom(_, _, _, _)
CeilFrom(a, b, n, acc) ==
    IF ~MagLt(acc, a) THEN n ELSE CeilFrom(a, b, n + 1, MagAdd(acc, b))

CeilRatio(a, b) == CeilFrom(a, b, 0, Zero)

RECURSIVE ExactSum(_)
ExactSum(s) == IF s = <<>> THEN Zero ELSE ExactAdd(s[1], ExactSum(Tail(s)))

----------------------------------------------------------------------------
(* Invocation states *)

INVOCATION_TERMINAL_STATES == {"cancelled", "failed", "scheduled"}
NON_TERMINAL_STATES == {"new", "ready"}
InvocationStates == INVOCATION_TERMINAL_STATES \cup NON_TERMINAL_STATES

Invocations == {"inv1", "inv2"}
Waiters == {"w1", "w2"}

Min(a, b) == IF a <= b THEN a ELSE b

----------------------------------------------------------------------------
(* wait_for_invocation *)

NoArgs == [invocation_id |-> "none", maxwait |-> Zero, interval |-> Zero,
           check |-> FALSE]
NoOutcome == [kind |-> "none"]

Preconditions_AllowZeroInterval(maxwait, interval) ==
    FLe(Zero, maxwait) /\ FLe(Zero, interval)

\* assert maxwait >= 0; assert interval > 0
Preconditions(maxwait, interval) == FLe(Zero, maxwait) /\ FLt(Zero, interval)

Decide_IgnoreCheck(state, check, tl) ==
    IF state \in INVOCATION_TERMINAL_STATES THEN "return"
    ELSE IF FLt(Zero, tl) THEN "sleep" ELSE "timeout"

Decide_TimeoutFirst(state, check, tl) ==
    IF FLe(tl, Zero) THEN "timeout"
    ELSE IF state \in INVOCATION_TERMINAL_STATES
         THEN (IF check /\ state # "scheduled" THEN "raise" ELSE "return")
         ELSE "sleep"

Decide_SleepAtZero(state, check, tl) ==
    IF state \in INVOCATION_TERMINAL_STATES
    THEN (IF check /\ state # "scheduled" THEN "raise" ELSE "return")
    ELSE IF FLe(Zero, tl) THEN "sleep" ELSE "timeout"

\* The branch the loop body takes after a show_invocation returned `state`.
Decide(state, check, tl) ==
    IF state \in INVOCATION_TERMINAL_STATES
    THEN (IF check /\ state # "scheduled" THEN "raise" ELSE "return")
    ELSE IF FLt(Zero, tl) THEN "sleep" ELSE "timeout"

SleepDuration_NoClamp(tl, interval) == interval

\* time.sleep(min(time_left, interval))
SleepDuration(tl, interval) == FMin(tl, interval)

TimeLeftAfterSleep_BySlept(tl, interval) == FSub(tl, FMin(tl, interval))

\* time_left -= interval
TimeLeftAfterSleep(tl, interval) == FSub(tl, interval)

DecrementTimeLeft_Shared(tl, w, interval) ==
    [x \in DOMAIN tl |-> TimeLeftAfterSleep(tl[x], interval)]

\* time_left is a local variable of the call: only the caller's is changed.
DecrementTimeLeft(tl, w, interval) ==
    [tl EXCEPT ![w] = TimeLeftAfterSleep(tl[w], interval)]

\* What each way of ending the call carries.
Returned(id, state) == [kind |-> "return", id |-> id, state |-> state]
InvocationFailed(id, state) == [kind |-> "Exception", id |-> id, state |-> state]
TimeoutException(id, state, maxwait) ==
    [kind |-> "TimeoutException", id |-> id, state |-> state, maxwait |-> maxwait]
AssertionError == [kind |-> "AssertionError"]

\* The call: the two asserts, then time_left = maxwait.
Call(w, id, maxwait, interval, check) ==
    /\ pc[w] = "idle"
    /\ wargs' = [wargs EXCEPT ![w] = [invocation_id |-> id, maxwait |-> maxwait,
                                      interval |-> interval, check |-> check]]
    /\ IF Preconditions(maxwait, interval)
       THEN /\ time_left' = [time_left EXCEPT ![w] = maxwait]
            /\ budget' = [budget EXCEPT ![w] = <<maxwait>>]
            /\ pc' = [pc EXCEPT ![w] = "poll"]
            /\ UNCHANGED outcome
       ELSE /\ outcome' = [outcome EXCEPT ![w] = AssertionError]
            /\ pc' = [pc EXCEPT ![w] = "done"]
            /\ UNCHANGED <<time_left, budget>>
    /\ UNCHANGED <<inv_state, obs, polls, outstanding, sleeps>>
    /\ UNCHANGED <<list_vars, pdf_vars>>

\* self.gi.invocations.show_invocation(invocation_id): the request goes out.
ShowRequest(w) ==
    /\ pc[w] = "poll"
    /\ polls' = [polls EXCEPT ![w] = @ + 1]
    /\ outstanding' = [outstanding EXCEPT ![w] = @ + 1]
    /\ pc' = [pc EXCEPT ![w] = "await"]
    /\ UNCHANGED <<inv_state, wargs, time_left, obs, sleeps, budget, outcome>>
    /\ UNCHANGED <<list_vars, pdf_vars>>

\* The snapshot comes back and the loop body inspects its state.
ShowResponse(w) ==
    /\ pc[w] = "await"
    /\ LET a == wargs[w]
           state == inv_state[a.invocation_id]
           d == Decide(state, a.check, time_left[w])
       IN /\ obs' = [obs EXCEPT ![w] = Append(@, state)]
          /\ outstanding' = [outstanding EXCEPT ![w] = @ - 1]
          /\ CASE d = "raise" ->
                    /\ outcome' = [outcome EXCEPT
                                     ![w] = InvocationFailed(a.invocation_id, state)]
                    /\ pc' = [pc EXCEPT ![w] = "done"]
                    /\ UNCHANGED sleeps
               [] d = "return" ->
                    /\ outcome' = [outcome EXCEPT
                                     ![w] = Returned(a.invocation_id, state)]
                    /\ pc' = [pc EXCEPT ![w] = "done"]
                    /\ UNCHANGED sleeps
               [] d = "sleep" ->
                    /\ sleeps' = [sleeps EXCEPT
                                    ![w] = Append(@, SleepDuration(time_left[w], a.interval))]
                    /\ pc' = [pc EXCEPT ![w] = "sleep"]
                    /\ UNCHANGED outcome
               [] d = "timeout" ->
                    /\ outcome' = [outcome EXCEPT
                                     ![w] = TimeoutException(a.invocation_id, state, a.maxwait)]
                    /\ pc' = [pc EXCEPT ![w] = "done"]
                    /\ UNCHANGED sleeps
    /\ UNCHANGED <<inv_state, wargs, time_left, polls, budget>>
    /\ UNCHANGED <<list_vars, pdf_vars>>

\* time.sleep returns; time_left -= interval; back to the top of the loop.
WakeUp(w) ==
    /\ pc[w] = "sleep"
    /\ time_left' = DecrementTimeLeft(time_left, w, wargs[w].interval)
    /\ budget' = [budget EXCEPT ![w] = Append(@, time_left'[w])]
    /\ pc' = [pc EXCEPT ![w] = "poll"]
    /\ UNCHANGED <<inv_state, wargs, obs, polls, outstanding, sleeps, outcome>>
    /\ UNCHANGED <<list_vars, pdf_vars>>

\* The server moves an invocation on; a terminal state is never left.
ServerStep(i) ==
    /\ inv_state[i] \in NON_TERMINAL_STATES
    /\ \E s \in InvocationStates \ {inv_state[i]} :
          inv_state' = [inv_state EXCEPT ![i] = s]
    /\ UNCHANGED <<pc, wargs, time_left, obs, polls, outstanding, sleeps, budget, outcome>>
    /\ UNCHANGED <<list_vars, pdf_vars>>

InitWaiters ==
    /\ pc = [w \in Waiters |-> "idle"]
    /\ wargs = [w \in Waiters |-> NoArgs]
    /\ time_left = [w \in Waiters |-> Zero]
    /\ obs = [w \in Waiters |-> <<>>]
    /\ polls = [w \in Waiters |-> 0]
    /\ outstanding = [w \in Waiters |-> 0]
    /\ sleeps = [w \in Waiters |-> <<>>]
    /\ budget = [w \in Waiters |-> <<>>]
    /\ outcome = [w \in Waiters |-> NoOutcome]

\* An invocation may be in any state when a wait on it begins.
InitWaitVars ==
    /\ inv_state \in [Invocations -> InvocationStates]
    /\ InitWaiters

InitWaitIdle ==
    /\ inv_state = [i \in Invocations |-> "new"]
    /\ InitWaiters

InitListIdle ==
    /\ list_pc = "off"
    /\ list_args = <<>>
    /\ params = <<>>

InitPdfIdle ==
    /\ pdf_pc = "off"
    /\ pdf_args = 0
    /\ response = <<>>
    /\ file_before = <<>>
    /\ file = <<>>
    /\ pending = <<>>
    /\ pdf_outcome = "none"

----------------------------------------------------------------------------
(* One caller of wait_for_invocation, whole and fractional arguments, any   *)
(* server behaviour                                                         *)

MaxWaits == {Whole(n) : n \in (-1)..MaxWait} \cup {Tenths(k) : k \in 1..MaxTenths}
Intervals == {Whole(n) : n \in (-1)..MaxInterval} \cup {Tenths(k) : k \in 1..MaxTenths}

\* Calls whose budget is at most MaxTicks intervals (and the rejected calls).
TicksBounded(maxwait, interval) ==
    \/ ~Preconditions(maxwait, interval)
    \/ ~MagLt(ExactSum([i \in 1..MaxTicks |-> interval]), maxwait)

Init == InitWaitVars /\ InitListIdle /\ InitPdfIdle

Next ==
    \/ \E id \in Invocations, maxwait \in MaxWaits, interval \in Intervals,
          check \in BOOLEAN :
          /\ pc["w1"] = "idle"
          /\ TicksBounded(maxwait, interval)
          /\ Call("w1", id, maxwait, interval, check)
    \/ ShowRequest("w1")
    \/ ShowResponse("w1")
    \/ WakeUp("w1")
    \/ \E i \in Invocations : ServerStep(i)

Spec == Init /\ [][Next]_vars

----------------------------------------------------------------------------
(* Properties of wait_for_invocation *)

Last(s) == s[Len(s)]

IsWhole(x) == x.lo = 0 /\ x.hi % (2^26) = 0

Valid(w) == pc[w] # "idle" /\ Preconditions(wargs[w].maxwait, wargs[w].interval)

WholeArgs(w) == Valid(w) /\ IsWhole(wargs[w].maxwait) /\ IsWhole(wargs[w].interval)

\* C1: a poll that observes a terminal state s is the last one of the call; the
\* call returns that snapshot iff (check is false or s is scheduled) and raises
\* the invocation-failed error naming the invocation and s otherwise; that
\* error is raised for nothing else.
C1_TerminalStatePolicy ==
    \A w \in Waiters :
        /\ \A k \in 1..Len(obs[w]) :
              obs[w][k] \in INVOCATION_TERMINAL_STATES =>
                 /\ k = Len(obs[w])
                 /\ polls[w] = k
                 /\ pc[w] = "done"
                 /\ outcome[w] =
                       IF wargs[w].check /\ obs[w][k] # "scheduled"
                       THEN InvocationFailed(wargs[w].invocation_id, obs[w][k])
                       ELSE Returned(wargs[w].invocation_id, obs[w][k])
        /\ outcome[w].kind = "Exception" =>
              wargs[w].check /\ Last(obs[w]) \in {"cancelled", "failed"}
        /\ outcome[w].kind = "return" =>
              ~wargs[w].check \/ Last(obs[w]) = "scheduled"

C1_Witness ==
    /\ pc["w1"] = "done"
    /\ wargs["w1"].check
    /\ Len(obs["w1"]) >= 2
    /\ outcome["w1"] = InvocationFailed(wargs["w1"].invocation_id, "failed")

\* C2: a call with maxwait >= 0 and interval > 0 issues at most
\* ceil(maxwait / interval) + 1 show requests, whatever the server reports.
C2_BoundedPolling ==
    \A w \in Waiters :
        Valid(w) => polls[w] <= CeilRatio(wargs[w].maxwait, wargs[w].interval) + 1

\* The bound of C2 for arguments that are whole numbers of seconds, where
\* time_left -= interval is exact.
C2_WholeArgsBound ==
    \A w \in Waiters :
        WholeArgs(w) => polls[w] <= CeilRatio(wargs[w].maxwait, wargs[w].interval) + 1

\* The scenario of C3: maxwait = 5, interval = 3, every poll saw "ready".
C3_Scenario(w) ==
    /\ pc[w] = "done"
    /\ wargs[w].maxwait = Whole(5)
    /\ wargs[w].interval = Whole(3)
    /\ \A k \in 1..Len(obs[w]) : obs[w][k] = "ready"

C3_Course(w) ==
    /\ sleeps[w] = <<Whole(3), Whole(2)>>
    /\ budget[w] = <<Whole(5), Whole(2), Whole(-1)>>
    /\ outcome[w] = TimeoutException(wargs[w].invocation_id, "ready", Whole(5))

\* C3 as stated: the scenario ends after exactly 2 show requests.
C3_Original ==
    \A w \in Waiters : C3_Scenario(w) => polls[w] = 2 /\ C3_Course(w)

\* C3 (amended): in the scenario the call issues exactly 3 show requests and
\* sleeps twice, 3 s and then 2 s, time_left going 5, 2, -1; the third request
\* sees "ready" with nothing left and the timeout error is raised.
C3_ThreePolls ==
    \A w \in Waiters :
        C3_Scenario(w) => polls[w] = 3 /\ Len(obs[w]) = 3 /\ C3_Course(w)

C3_Witness == C3_Scenario("w1") /\ polls["w1"] = 3

\* C4: the timeout error is raised exactly at a poll that observes a
\* non-terminal state with time_left <= 0, which is after time_left went
\* from maxwait down in steps of interval, each taken while it was > 0; it
\* names the invocation, that state and maxwait; a terminal state never
\* yields it, a non-terminal state never yields the invocation-failed error.
C4_TimeoutExactly ==
    \A w \in Waiters :
        /\ \A k \in 1..Len(obs[w]) :
              (obs[w][k] \in NON_TERMINAL_STATES /\ FLe(budget[w][k], Zero)) =>
                 /\ k = Len(obs[w])
                 /\ pc[w] = "done"
                 /\ outcome[w] = TimeoutException(wargs[w].invocation_id,
                                                  obs[w][k], wargs[w].maxwait)
        /\ outcome[w].kind = "TimeoutException" =>
              /\ Last(obs[w]) \in NON_TERMINAL_STATES
              /\ FLe(time_left[w], Zero)
              /\ time_left[w] = Last(budget[w])
              /\ budget[w][1] = wargs[w].maxwait
              /\ Len(budget[w]) = Len(sleeps[w]) + 1
              /\ \A k \in 1..Len(sleeps[w]) :
                    /\ FLt(Zero, budget[w][k])
                    /\ budget[w][k + 1] = FSub(budget[w][k], wargs[w].interval)
              /\ outcome[w] # InvocationFailed(wargs[w].invocation_id, Last(obs[w]))
        /\ (pc[w] = "done" /\ obs[w] # <<>>
               /\ Last(obs[w]) \in INVOCATION_TERMINAL_STATES) =>
              outcome[w].kind \in {"return", "Exception"}
        /\ outcome[w].kind = "Exception" =>
              Last(obs[w]) \in INVOCATION_TERMINAL_STATES

C4_Witness ==
    /\ outcome["w1"].kind = "TimeoutException"
    /\ FLt(time_left["w1"], Zero)
    /\ Len(obs["w1"]) >= 2
    /\ obs["w1"][1] # Last(obs["w1"])

\* C5: a call with maxwait < 0 or interval <= 0 ends at once with the
\* assertion error: no show request, no sleep; no other call ends that way.
C5_PreconditionFirst ==
    \A w \in Waiters :
        /\ (pc[w] # "idle"
              /\ (FLt(wargs[w].maxwait, Zero) \/ FLe(wargs[w].interval, Zero))) =>
              /\ pc[w] = "done"
              /\ outcome[w] = AssertionError
              /\ polls[w] = 0
              /\ obs[w] = <<>>
              /\ sleeps[w] = <<>>
        /\ outcome[w] = AssertionError =>
              (FLt(wargs[w].maxwait, Zero) \/ FLe(wargs[w].interval, Zero))

C5_Witness ==
    /\ outcome["w1"] = AssertionError
    /\ wargs["w1"].interval = Zero
    /\ FLt(Zero, wargs["w1"].maxwait)

\* C6: with maxwait = 0 a non-terminal first observation ends the call with the
\* timeout error after exactly one show request and no sleep.
C6_ZeroBudget ==
    \A w \in Waiters :
        (Valid(w) /\ wargs[w].maxwait = Zero) =>
           /\ sleeps[w] = <<>>
           /\ polls[w] <= 1
           /\ (obs[w] # <<>> /\ obs[w][1] \in NON_TERMINAL_STATES) =>
                 /\ pc[w] = "done"
                 /\ polls[w] = 1
                 /\ outcome[w] = TimeoutException(wargs[w].invocation_id,
                                                  obs[w][1], Zero)

C6_Witness ==
    /\ wargs["w1"].maxwait = Zero
    /\ FLt(Whole(1), wargs["w1"].interval)
    /\ outcome["w1"].kind = "TimeoutException"

C10_Budget(w) ==
    /\ \A k \in 1..Len(sleeps[w]) :
          /\ sleeps[w][k] = FMin(budget[w][k], wargs[w].interval)
          /\ FLt(Zero, sleeps[w][k])
          /\ FLe(sleeps[w][k], wargs[w].interval)
    /\ FLe(ExactSum(sleeps[w]), wargs[w].maxwait)
    /\ outcome[w].kind = "TimeoutException" =>
          ExactSum(sleeps[w]) = wargs[w].maxwait

\* C10: every sleep lasts min(time_left, interval), more than 0 and at most
\* interval; the sleeps of a call never add up to more than maxwait, and add
\* up to exactly maxwait when the call ends with the timeout error.
C10_SleepBudget == \A w \in Waiters : Valid(w) => C10_Budget(w)

\* The statement of C10 for arguments that are whole numbers of seconds.
C10_WholeArgsSleepBudget == \A w \in Waiters : WholeArgs(w) => C10_Budget(w)

----------------------------------------------------------------------------
(* Several callers of wait_for_invocation at once, each on its own invocation *)

InvocationOf(w) == IF w = "w1" THEN "inv1" ELSE "inv2"

InitConc == InitWaitVars /\ InitListIdle /\ InitPdfIdle

NextConc ==
    \/ \E w \in Waiters, maxwait \in 0..ConcMaxWait,
          interval \in 1..ConcMaxInterval, check \in BOOLEAN :
          Call(w, InvocationOf(w), Whole(maxwait), Whole(interval), check)
    \/ \E w \in Waiters : ShowRequest(w)
    \/ \E w \in Waiters : ShowResponse(w)
    \/ \E w \in Waiters : WakeUp(w)
    \/ \E i \in Invocations : ServerStep(i)

SpecConc == InitConc /\ [][NextConc]_vars

\* The call run on its own against the observations o, from poll k on with
\* tl left: how it ends and after how many show requests.
RECURSIVE RunAlone(_, _, _, _)
RunAlone(a, o, k, tl) ==
    IF k > Len(o)
    THEN [outcome |-> NoOutcome, polls |-> k]
    ELSE LET d == Decide(o[k], a.check, tl)
         IN CASE d = "raise" ->
                   [outcome |-> InvocationFailed(a.invocation_id, o[k]), polls |-> k]
              [] d = "return" ->
                   [outcome |-> Returned(a.invocation_id, o[k]), polls |-> k]
              [] d = "timeout" ->
                   [outcome |-> TimeoutException(a.invocation_id, o[k], a.maxwait),
                    polls |-> k]
              [] d = "sleep" ->
                   RunAlone(a, o, k + 1, FSub(tl, a.interval))

\* C9: under every interleaving each waiter has at most one show request
\* outstanding, polls and sleeps strictly in turn, ends the way it would end
\* alone against the states it observed, after as many show requests, and its
\* time_left is moved by its own sleeps only.
C9_WaitersIndependent ==
    \A w \in Waiters :
        /\ outstanding[w] \in {0, 1}
        /\ outstanding[w] = 1 <=> pc[w] = "await"
        /\ polls[w] = Len(obs[w]) + outstanding[w]
        /\ Len(sleeps[w]) = IF pc[w] = "done" /\ obs[w] # <<>>
                            THEN Len(obs[w]) - 1
                            ELSE Len(obs[w])
        /\ Valid(w) =>
              /\ time_left[w] = Last(budget[w])
              /\ Len(budget[w]) = Len(sleeps[w]) + (IF pc[w] = "sleep" THEN 0 ELSE 1)
        /\ pc[w] = "done" =>
              RunAlone(wargs[w], obs[w], 1, wargs[w].maxwait)
                 = [outcome |-> outcome[w], polls |-> polls[w]]

C9_Witness ==
    /\ outcome["w1"].kind = "TimeoutException"
    /\ polls["w1"] >= 2
    /\ outcome["w2"].kind = "return"
    /\ polls["w2"] >= 2
    /\ wargs["w1"].maxwait # wargs["w2"].maxwait

----------------------------------------------------------------------------
(* get_invocations *)

None == [t |-> "None"]
Str(s) == [t |-> "str", s |-> s]
Int_(n) == [t |-> "int", n |-> n]
Bool(b) == [t |-> "bool", b |-> b]

\* Python truth value: None, "", 0 and False are false.
Truthy(v) ==
    CASE v.t = "None" -> FALSE
      [] v.t = "str"  -> v.s # ""
      [] v.t = "int"  -> v.n # 0
      [] v.t = "bool" -> v.b

MandatoryKeys == {"include_terminal", "view", "step_details"}
OptionalKeys == {"workflow_id", "history_id", "user_id", "limit"}

BuildParams_DropFalsy(a) ==
    [k \in {x \in MandatoryKeys \cup OptionalKeys : Truthy(a[x])} |-> a[k]]

\* params = {the three fixed keys}; then one key per truthy optional argument.
BuildParams(a) ==
    [k \in MandatoryKeys \cup {x \in OptionalKeys : Truthy(a[x])} |-> a[k]]

ListArgs ==
    [workflow_id : {None, Str(""), Str("wf1")},
     history_id : {None, Str(""), Str("h1")},
     user_id : {None, Str("u1")},
     include_terminal : {Bool(TRUE), Bool(FALSE)},
     limit : {None} \cup {Int_(n) : n \in 0..MaxLimit},
     view : {Str("collection"), Str("element")},
     step_details : {Bool(TRUE), Bool(FALSE)}]

GetInvocations(a) ==
    /\ list_pc = "idle"
    /\ list_args' = a
    /\ params' = BuildParams(a)
    /\ list_pc' = "sent"
    /\ UNCHANGED <<wait_vars, pdf_vars>>

ListReturn ==
    /\ list_pc = "sent"
    /\ list_pc' = "idle"
    /\ UNCHANGED <<list_args, params>>
    /\ UNCHANGED <<wait_vars, pdf_vars>>

InitList ==
    /\ InitWaitIdle
    /\ InitPdfIdle
    /\ list_pc = "idle"
    /\ list_args = <<>>
    /\ params = <<>>

NextList ==
    \/ \E a \in ListArgs : GetInvocations(a)
    \/ ListReturn

SpecList == InitList /\ [][NextList]_vars

\* C7: the params of a list request hold include_terminal, view and
\* step_details with the caller's values, hold no key of an optional filter
\* the caller left out, and every other key is a filter the caller supplied,
\* with the supplied value.
C7_ListParams ==
    list_pc = "sent" =>
       /\ \A k \in MandatoryKeys : k \in DOMAIN params /\ params[k] = list_args[k]
       /\ \A k \in OptionalKeys : list_args[k] = None => k \notin DOMAIN params
       /\ \A k \in DOMAIN params \ MandatoryKeys :
             /\ k \in OptionalKeys
             /\ list_args[k] # None
             /\ params[k] = list_args[k]

C7_Witness ==
    /\ list_pc = "sent"
    /\ list_args.include_terminal = Bool(FALSE)
    /\ list_args.step_details = Bool(FALSE)
    /\ list_args.workflow_id = None
    /\ list_args.limit = Int_(1)
    /\ DOMAIN params = MandatoryKeys \cup {"limit"}

----------------------------------------------------------------------------
(* get_invocation_report_pdf *)

HTTP_OK == 200

StatusCodes == {HTTP_OK, 206, 404, 500}
Bytes == {0, 1}
Bodies == UNION {[1..n -> Bytes] : n \in 0..MaxBody}

IsSuccess(status) == status \in 200..299

AfterRequest_NoCheck(status) == "open"

\* if r.status_code != 200: raise Exception(...)
AfterRequest(status) == IF status # HTTP_OK THEN "raise" ELSE "open"

\* r.iter_content(chunk_size): the body in pieces of chunk_size, the last shorter.
RECURSIVE IterContent(_, _)
IterContent(body, n) ==
    IF body = <<>> THEN <<>>
    ELSE <<SubSeq(body, 1, Min(n, Len(body)))>>
            \o IterContent(SubSeq(body, n + 1, Len(body)), n)

RECURSIVE Flatten(_)
Flatten(chunks) ==
    IF chunks = <<>> THEN <<>> ELSE Head(chunks) \o Flatten(Tail(chunks))

\* self.gi.make_get_request(url, stream=True)
PdfRequest(chunk_size, status, body) ==
    /\ pdf_pc = "call"
    /\ pdf_args' = chunk_size
    /\ response' = [status_code |-> status, body |-> body]
    /\ pdf_pc' = "got"
    /\ UNCHANGED <<file_before, file, pending, pdf_outcome>>
    /\ UNCHANGED <<wait_vars, list_vars>>

\* The status check, and on success open(file_path, 'wb').
PdfCheckAndOpen ==
    /\ pdf_pc = "got"
    /\ IF AfterRequest(response.status_code) = "raise"
       THEN /\ pdf_outcome' = "Exception"
            /\ pdf_pc' = "done"
            /\ UNCHANGED <<file, pending>>
       ELSE /\ file' = [exists |-> TRUE, content |-> <<>>, opens |-> file.opens + 1,
                        writes |-> file.writes]
            /\ pending' = IterContent(response.body, pdf_args)
            /\ pdf_pc' = "write"
            /\ UNCHANGED pdf_outcome
    /\ UNCHANGED <<pdf_args, response, file_before>>
    /\ UNCHANGED <<wait_vars, list_vars>>

\* outf.write(chunk) for the next chunk
PdfWrite ==
    /\ pdf_pc = "write"
    /\ pending # <<>>
    /\ file' = [file EXCEPT !.content = @ \o Head(pending), !.writes = @ + 1]
    /\ pending' = Tail(pending)
    /\ UNCHANGED <<pdf_pc, pdf_args, response, file_before, pdf_outcome>>
    /\ UNCHANGED <<wait_vars, list_vars>>

\* The chunks are exhausted: the file is closed and the call returns.
PdfClose ==
    /\ pdf_pc = "write"
    /\ pending = <<>>
    /\ pdf_outcome' = "return"
    /\ pdf_pc' = "done"
    /\ UNCHANGED <<pdf_args, response, file_before, file, pending>>
    /\ UNCHANGED <<wait_vars, list_vars>>

FilesBefore ==
    {[exists |-> FALSE, content |-> <<>>, opens |-> 0, writes |-> 0],
     [exists |-> TRUE, content |-> <<>>, opens |-> 0, writes |-> 0],
     [exists |-> TRUE, content |-> <<1, 0, 1, 1>>, opens |-> 0, writes |-> 0]}

InitPdf ==
    /\ InitWaitIdle
    /\ InitListIdle
    /\ pdf_pc = "call"
    /\ pdf_args = 0
    /\ response = <<>>
    /\ file_before \in FilesBefore
    /\ file = file_before
    /\ pending = <<>>
    /\ pdf_outcome = "none"

NextPdf ==
    \/ \E chunk_size \in 1..MaxChunkSize, status \in StatusCodes, body \in Bodies :
          PdfRequest(chunk_size, status, body)
    \/ PdfCheckAndOpen
    \/ PdfWrite
    \/ PdfClose

SpecPdf == InitPdf /\ [][NextPdf]_vars

\* C8: on a non-success status the call raises and the destination is as it
\* was, never opened, nothing written; the destination is written only on
\* success, the chunks in the order received, so that the file ends up
\* holding the body.
C8_PdfStatusFirst ==
    pdf_pc \in {"write", "done"} =>
       /\ ~IsSuccess(response.status_code) =>
             /\ pdf_pc = "done"
             /\ pdf_outcome = "Exception"
             /\ file = file_before
             /\ file.opens = 0 /\ file.writes = 0
       /\ file # file_before => IsSuccess(response.status_code)
       /\ pdf_outcome = "Exception" => file = file_before
       /\ file.opens > 0 =>
             /\ file.opens = 1
             /\ file.exists
             /\ file.content \o Flatten(pending) = response.body
             /\ \A i \in 1..Len(pending) :
                   Len(pending[i]) = pdf_args \/ (i = Len(pending) /\ Len(pending[i]) \in 1..pdf_args)
       /\ pdf_outcome = "return" => file.content = response.body

C8_Witness ==
    /\ pdf_pc = "done"
    /\ pdf_outcome = "Exception"
    /\ response.status_code = 404
    /\ Len(response.body) >= 2
    /\ file_before.exists
    /\ file_before.content # <<>>
    /\ file = file_before

====
